---- MODULE Spec2Model ----
(***************************************************************************)
(* Model of the movie route handlers of apps/movies/routes.py: the list    *)
(* endpoint with its optional filters, the lookup by id, and the create,   *)
(* update and delete handlers, each over one database session.  A handler  *)
(* is one atomic step: it runs inside one request with its own session.    *)
(***************************************************************************)
EXTENDS Integers, Sequences, FiniteSets

VARIABLES
    movies,       \* rows of the movie table: a set of records with an id
    directors,    \* ids of the rows of the director table
    next_id,      \* the store's key sequence for the movie table
    ever_ids,     \* history: every id a persisted movie ever had
    at_creation,  \* history: id -> the director ids present when it was created
    resp          \* the last request and the response it got

vars == <<movies, directors, next_id, ever_ids, at_creation, resp>>

(***************************************************************************)
(* Bounds and sample values                                                *)
(***************************************************************************)
\* highest key the store hands out before the model stops creating
MaxId == 2

MovieIds == 1..MaxId
\* path parameters tried: 0 (falsy), every key, and one key never handed out
RequestIds == 0..(MaxId + 1)

DirectorIds == {1}
\* director_id values of payloads: the directors, and one that never exists
PayloadDirectorIds == DirectorIds \cup {2}

\* text is a sequence of one-character strings
Titles == {<<"A", "b">>, <<"b">>}
Years == {-1, 1}
\* ratings in tenths: 0 is 0.0, 5 is 0.5
Ratings == {0, 5}
Runtimes == {90, 120}
Genres == {"Drama", "Action"}

Fields == {"title", "year", "rating", "runtime", "genre", "director_id"}

\* an optional argument: None, or Some(v)
None == {}
Some(v) == {v}
Val(o) == CHOOSE v \in o : TRUE

(***************************************************************************)
(* get_movies: the filters                                                 *)
(***************************************************************************)
\* Python truthiness of an optional str: None and "" are falsy
TruthyStr(o) == o # None /\ Val(o) # <<>>

\* Python truthiness of an optional int: None and 0 are falsy
TruthyInt(o) == o # None /\ Val(o) # 0

Lower(c) == CASE c = "A" -> "a" [] c = "B" -> "b" [] OTHER -> c

LowerText(s) == [i \in 1..Len(s) |-> Lower(s[i])]

\* SQL LIKE: % matches any run of characters, _ any one character
RECURSIVE Like(_, _)
Like(p, s) ==
    IF p = <<>> THEN s = <<>>
    ELSE IF Head(p) = "%" THEN Like(Tail(p), s) \/ (s # <<>> /\ Like(p, Tail(s)))
    ELSE IF s = <<>> THEN FALSE
    ELSE (Head(p) = "_" \/ Head(p) = Head(s)) /\ Like(Tail(p), Tail(s))

\* column.ilike(pattern): LIKE without regard to case
ILike(col, pattern) == Like(LowerText(pattern), LowerText(col))

DigitChar(d) == <<"0", "1", "2", "3", "4", "5", "6", "7", "8", "9">>[d + 1]

\* f"{rating}" of a float, for a rating given in tenths: 5 is "0.5", 0 is "0.0"
FormatRating(r) == <<DigitChar(r \div 10), ".", DigitChar(r % 10)>>

\* the text the store compares when a float column is matched with LIKE
ColumnText(r) == <<DigitChar(r \div 10), ".", DigitChar(r % 10)>>

TitleFilter(q, title) ==
    IF TruthyStr(title)
    THEN {m \in q : ILike(m.title, <<"%">> \o Val(title) \o <<"%">>)}
    ELSE q

RatingFilter(q, rating) ==
    IF rating # None
    THEN {m \in q : m.rating = Val(rating)
                    \/ Like(FormatRating(Val(rating)), ColumnText(m.rating))}
    ELSE q

\* variant: the lower bound applied whenever it is given, 0 included
MinYearFilterIfGiven(q, min_year) ==
    IF min_year # None THEN {m \in q : m.year >= Val(min_year)} ELSE q

MinYearFilter(q, min_year) ==
    IF TruthyInt(min_year) THEN {m \in q : m.year >= Val(min_year)} ELSE q

MaxYearFilter(q, max_year) ==
    IF TruthyInt(max_year) THEN {m \in q : m.year <= Val(max_year)} ELSE q

\* query.all() after the four conditional filter() calls
Query(rows, a) ==
    MaxYearFilter(MinYearFilter(RatingFilter(TitleFilter(rows, a.title), a.rating),
                                a.min_year), a.max_year)

(***************************************************************************)
(* Requests                                                                *)
(***************************************************************************)
\* two MovieCreate bodies with every field set, differing in every field; the
\* director_id of the second never exists
PayloadA ==
    [title |-> <<"A", "b">>, year |-> 1, rating |-> 5, runtime |-> 120,
     genre |-> "Drama", director_id |-> 1]

PayloadB ==
    [title |-> <<"b">>, year |-> -1, rating |-> 0, runtime |-> 90,
     genre |-> "Action", director_id |-> 2]

FullPayloads == {PayloadA, PayloadB}

\* a MovieCreate body in which only the fields of S are set
Restrict(p, S) == [f \in S |-> p[f]]

\* the sets of fields an update request sets
FieldSets ==
    {{}, {"title"}, {"year", "rating"}, {"runtime", "genre"}, {"director_id"}, Fields}

UpdatePayloads == {Restrict(PayloadB, S) : S \in FieldSets} \cup {PayloadA}

\* the query parameters of GET /movies, each absent or given
QueryTitles == {None, Some(<<>>), Some(<<"a">>), Some(<<"_">>)}
QueryRatings == {None} \cup {Some(r) : r \in Ratings}
QueryYears == {None, Some(0), Some(1)}

QueryArgs ==
    [title : QueryTitles, rating : QueryRatings, min_year : QueryYears,
     max_year : QueryYears]

NoArgs == <<>>

Response(op, status, id, args, body) ==
    [op |-> op, status |-> status, id |-> id, args |-> args, body |-> body]

(***************************************************************************)
(* The store                                                               *)
(***************************************************************************)
\* db.query(Movie).filter(Movie.id == movie_id)
Lookup(rows, movie_id) == {m \in rows : m.id = movie_id}

\* variant: the director is never looked up
DirectorExistsUnchecked(director_id) == TRUE

\* db.query(Director).filter(Director.id == director_id).first() is not None
DirectorExists(director_id) == director_id \in directors

\* variant: runtime filled from the year
NewMovieMisassigned(id, movie) ==
    [id |-> id, title |-> movie.title, year |-> movie.year, rating |-> movie.rating,
     runtime |-> movie.year, genre |-> movie.genre,
     director_id |-> movie.director_id]

\* models.Movie(title=..., ..., director_id=...) with the key the store assigns
NewMovie(id, movie) ==
    [id |-> id, title |-> movie.title, year |-> movie.year, rating |-> movie.rating,
     runtime |-> movie.runtime, genre |-> movie.genre,
     director_id |-> movie.director_id]

\* variant: dict() without exclude_unset, the unset fields written with defaults
SetAttrsWithDefaults(db_movie, payload) ==
    [f \in DOMAIN db_movie |->
        IF f \in DOMAIN payload THEN payload[f]
        ELSE IF f = "id" THEN db_movie.id
        ELSE PayloadA[f]]

\* for field, value in movie_update.dict(exclude_unset=True).items(): setattr(...)
SetAttrs(db_movie, payload) ==
    [f \in DOMAIN db_movie |-> IF f \in DOMAIN payload THEN payload[f] ELSE db_movie[f]]

Ids(rows) == {m.id : m \in rows}

\* the key the store gives the row on db.add / db.commit: the next of its sequence
AssignId == next_id

Init ==
    /\ movies = {}
    /\ directors = {}
    /\ next_id = 1
    /\ ever_ids = {}
    /\ at_creation = <<>>
    /\ resp = Response("none", 0, 0, NoArgs, {})

(***************************************************************************)
(* Handlers                                                                *)
(***************************************************************************)
\* variant: the lookup also drops the row it found from the session and commits
get_movie_expunging(movie_id) ==
    /\ IF Lookup(movies, movie_id) = {}
       THEN /\ resp' = Response("get_movie", 404, movie_id, NoArgs, {})
            /\ UNCHANGED movies
       ELSE \E db_movie \in Lookup(movies, movie_id) :
                /\ resp' = Response("get_movie", 200, movie_id, NoArgs, {db_movie})
                /\ movies' = movies \ {db_movie}
    /\ UNCHANGED <<directors, next_id, ever_ids, at_creation>>

get_movie(movie_id) ==
    /\ IF Lookup(movies, movie_id) = {}
       THEN resp' = Response("get_movie", 404, movie_id, NoArgs, {})
       ELSE \E db_movie \in Lookup(movies, movie_id) :
                resp' = Response("get_movie", 200, movie_id, NoArgs, {db_movie})
    /\ UNCHANGED <<movies, directors, next_id, ever_ids, at_creation>>

get_movies(a) ==
    /\ resp' = Response("get_movies", 200, 0, a, Query(movies, a))
    /\ UNCHANGED <<movies, directors, next_id, ever_ids, at_creation>>

create_movie(movie) ==
    IF ~DirectorExists(movie.director_id)
    THEN /\ resp' = Response("create_movie", 400, 0, movie, {})
         /\ UNCHANGED <<movies, directors, next_id, ever_ids, at_creation>>
    ELSE /\ next_id <= MaxId
         /\ LET db_movie == NewMovie(AssignId, movie) IN
                /\ movies' = movies \cup {db_movie}
                /\ resp' = Response("create_movie", 200, 0, movie, {db_movie})
                /\ ever_ids' = ever_ids \cup {db_movie.id}
                /\ at_creation' = [i \in DOMAIN at_creation \cup {db_movie.id} |->
                                      IF i = db_movie.id THEN directors
                                      ELSE at_creation[i]]
         /\ next_id' = next_id + 1
         /\ UNCHANGED directors

update_movie(movie_id, movie_update) ==
    /\ IF movie_id = 0
       THEN /\ resp' = Response("update_movie", 404, movie_id, movie_update, {})
            /\ UNCHANGED movies
       ELSE IF Lookup(movies, movie_id) = {}
       THEN \* db_movie is None: setattr or refresh raises, the session is dropped
            /\ resp' = Response("update_movie", 500, movie_id, movie_update, {})
            /\ UNCHANGED movies
       ELSE \E db_movie \in Lookup(movies, movie_id) :
                LET updated == SetAttrs(db_movie, movie_update) IN
                    /\ movies' = (movies \ {db_movie}) \cup {updated}
                    /\ resp' = Response("update_movie", 200, movie_id, movie_update,
                                        {updated})
    /\ UNCHANGED <<directors, next_id, ever_ids, at_creation>>

\* variant: the row is found and 204 returned, but nothing is deleted
delete_movie_uncommitted(movie_id) ==
    /\ IF Lookup(movies, movie_id) = {}
       THEN resp' = Response("delete_movie", 404, movie_id, NoArgs, {})
       ELSE resp' = Response("delete_movie", 204, movie_id, NoArgs, {})
    /\ UNCHANGED <<movies, directors, next_id, ever_ids, at_creation>>

delete_movie(movie_id) ==
    /\ IF Lookup(movies, movie_id) = {}
       THEN /\ resp' = Response("delete_movie", 404, movie_id, NoArgs, {})
            /\ UNCHANGED movies
       ELSE \E db_movie \in Lookup(movies, movie_id) :
                /\ movies' = movies \ {db_movie}
                /\ resp' = Response("delete_movie", 204, movie_id, NoArgs, {})
    /\ UNCHANGED <<directors, next_id, ever_ids, at_creation>>

\* the director routes, which own the director table
create_director(director_id) ==
    /\ director_id \notin directors
    /\ directors' = directors \cup {director_id}
    /\ resp' = Response("create_director", 200, director_id, NoArgs, {})
    /\ UNCHANGED <<movies, next_id, ever_ids, at_creation>>

delete_director(director_id) ==
    /\ director_id \in directors
    /\ directors' = directors \ {director_id}
    /\ resp' = Response("delete_director", 204, director_id, NoArgs, {})
    /\ UNCHANGED <<movies, next_id, ever_ids, at_creation>>

Next ==
    \/ \E movie_id \in RequestIds : get_movie(movie_id)
    \/ \E movie \in FullPayloads : create_movie(movie)
    \/ \E movie_id \in RequestIds, movie_update \in UpdatePayloads :
           update_movie(movie_id, movie_update)
    \/ \E movie_id \in RequestIds : delete_movie(movie_id)
    \/ \E director_id \in DirectorIds : create_director(director_id)
    \/ \E director_id \in DirectorIds : delete_director(director_id)

Spec == Init /\ [][Next]_vars

(***************************************************************************)
(* The read handlers over every table the write handlers can leave         *)
(***************************************************************************)
\* rows a create followed by updates can leave under one key
StoredMovies(id) ==
    [id : {id}, title : Titles, year : Years, rating : Ratings, runtime : {120},
     genre : {"Drama"}, director_id : {1}]

\* tables with at most one row per key
Tables ==
    {rows \in SUBSET UNION {StoredMovies(id) : id \in MovieIds} :
        \A m1 \in rows, m2 \in rows : m1.id = m2.id => m1 = m2}

ReadInit ==
    /\ movies \in Tables
    /\ directors = DirectorIds
    /\ next_id = MaxId + 1
    /\ ever_ids = MovieIds
    /\ at_creation = [i \in MovieIds |-> DirectorIds]
    /\ resp = Response("none", 0, 0, NoArgs, {})

ReadNext ==
    \/ \E a \in QueryArgs : get_movies(a)
    \/ \E movie_id \in RequestIds : get_movie(movie_id)

ReadSpec == ReadInit /\ [][ReadNext]_vars

(***************************************************************************)
(* Properties of the list endpoint, checked under ReadSpec                 *)
(***************************************************************************)
\* t occurs in s as a run of consecutive characters
IsSubstring(t, s) ==
    \E i \in 1..(Len(s) + 1) :
        /\ i + Len(t) - 1 <= Len(s)
        /\ SubSeq(s, i, i + Len(t) - 1) = t

\* the criteria as the contract states them: a criterion counts when it is given
Satisfies(m, a) ==
    /\ a.title # None => IsSubstring(LowerText(Val(a.title)), LowerText(m.title))
    /\ a.rating # None => \/ m.rating = Val(a.rating)
                          \/ ColumnText(m.rating) = FormatRating(Val(a.rating))
    /\ a.min_year # None => m.year >= Val(a.min_year)
    /\ a.max_year # None => m.year <= Val(a.max_year)

\* C1: get_movies returns exactly the persisted movies that satisfy every
\* criterion that was given (0 and the empty string included), the criteria
\* joined by AND and the two rating forms by OR.
C1_ExactlyTheMatches ==
    resp.op = "get_movies" =>
        resp.body = {m \in movies : Satisfies(m, resp.args)}

\* C8: with only min_year = a and max_year = b given, the result is exactly the
\* movies with a <= year <= b, for every pair of bounds.
C8_InclusiveYearRange ==
    (/\ resp.op = "get_movies"
     /\ resp.args.title = None /\ resp.args.rating = None
     /\ resp.args.min_year # None /\ resp.args.max_year # None)
    => resp.body = {m \in movies : /\ Val(resp.args.min_year) <= m.year
                                   /\ m.year <= Val(resp.args.max_year)}

\* C9 as stated: min_year = 0 gives the result of the call without min_year, and
\* rating = 0 gives the result of the call without rating.
C9_ZeroIsAbsent ==
    resp.op = "get_movies" =>
        /\ resp.args.min_year = Some(0) =>
               resp.body = Query(movies, [resp.args EXCEPT !.min_year = None])
        /\ resp.args.rating = Some(0) =>
               resp.body = Query(movies, [resp.args EXCEPT !.rating = None])

\* C9 amended: min_year = 0 gives the result of the call without min_year; rating
\* is tested against None, so rating = 0 gives, of the result of the call without
\* rating, exactly the movies whose rating matches 0.
C9_ZeroMinYearIsAbsent ==
    resp.op = "get_movies" =>
        /\ resp.args.min_year = Some(0) =>
               resp.body = Query(movies, [resp.args EXCEPT !.min_year = None])
        /\ resp.args.rating = Some(0) =>
               resp.body = {m \in Query(movies, [resp.args EXCEPT !.rating = None]) :
                               \/ m.rating = 0
                               \/ ColumnText(m.rating) = FormatRating(0)}

\* a call with min_year = 0 and rating = 0 that returned a movie from before year
\* 0 and left out a movie with another rating
C9_Witness ==
    /\ resp.op = "get_movies"
    /\ resp.args.min_year = Some(0)
    /\ resp.args.rating = Some(0)
    /\ \E m \in resp.body : m.year < 0
    /\ \E m \in movies \ resp.body : m.rating # 0

\* C10: get_movies and get_movie leave the store as it was, whatever they return.
C10_ReadsChangeNothing ==
    [][resp'.op \in {"get_movies", "get_movie"} =>
          /\ movies' = movies
          /\ directors' = directors
          /\ next_id' = next_id]_vars

\* a lookup that found its movie and returned it, in a store of two movies
C10_Witness ==
    /\ resp.op = "get_movie"
    /\ resp.status = 200
    /\ resp.body \subseteq movies
    /\ Cardinality(movies) = 2

(***************************************************************************)
(* Properties of create, update, delete and lookup, checked under Spec     *)
(***************************************************************************)
\* C2: update_movie with an id that has no persisted movie ends with 404 and
\* leaves the movies as they were.
C2_UpdateUnknownIsNotFound ==
    [][(resp'.op = "update_movie" /\ resp'.id \notin Ids(movies)) =>
          /\ resp'.status = 404
          /\ movies' = movies]_vars

\* C3: create_movie with a director_id of no existing director ends with 400 and
\* adds no movie.
C3_InvalidDirectorRejected ==
    [][(resp'.op = "create_movie" /\ resp'.args.director_id \notin directors) =>
          /\ resp'.status = 400
          /\ resp'.body = {}
          /\ movies' = movies
          /\ next_id' = next_id]_vars

\* a rejected create in a store that holds a movie
C3_Witness ==
    /\ resp.op = "create_movie"
    /\ resp.status = 400
    /\ resp.args.director_id \notin directors
    /\ movies # {}

\* C4: update_movie on an existing movie sets exactly the fields the payload
\* sets; its other fields and its id, and every other movie, stay as they were,
\* and the record returned is the one persisted.
C4_PartialUpdate ==
    [][(resp'.op = "update_movie" /\ resp'.id \in Ids(movies)) =>
          \E old \in movies, new \in movies' :
              /\ old.id = resp'.id
              /\ new.id = old.id
              /\ resp'.status = 200
              /\ \A f \in DOMAIN resp'.args : new[f] = resp'.args[f]
              /\ \A f \in Fields \ DOMAIN resp'.args : new[f] = old[f]
              /\ movies' \ {new} = movies \ {old}
              /\ resp'.body = {new}]_vars

\* an update of the title alone, of a movie whose other fields differ from the
\* payload's source, beside a second movie
C4_Witness ==
    /\ resp.op = "update_movie"
    /\ resp.status = 200
    /\ DOMAIN resp.args = {"title"}
    /\ \E m \in resp.body : m \in movies /\ m.title = PayloadB.title
                            /\ m.year = PayloadA.year /\ m.genre = PayloadA.genre
    /\ Cardinality(movies) = 2

\* C5: delete_movie of an unknown id ends with 404 and changes nothing; of a
\* known id it removes exactly that movie and returns no content; no request
\* but a create adds a movie; and get_movie of an id without a movie ends with
\* 404.  So a lookup after the delete, with no create between, is not found.
C5_DeleteThenNotFound ==
    [][/\ (resp'.op = "delete_movie" /\ resp'.id \notin Ids(movies)) =>
              resp'.status = 404 /\ movies' = movies
       /\ (resp'.op = "delete_movie" /\ resp'.id \in Ids(movies)) =>
              /\ resp'.status = 204
              /\ resp'.body = {}
              /\ movies' = {m \in movies : m.id # resp'.id}
              /\ resp'.id \notin Ids(movies')
       /\ resp'.op # "create_movie" => Ids(movies') \subseteq Ids(movies)
       /\ (resp'.op = "get_movie" /\ resp'.id \notin Ids(movies)) =>
              resp'.status = 404 /\ resp'.body = {}]_vars

\* a lookup that did not find a movie that was persisted and deleted, while
\* another movie is still there
C5_Witness ==
    /\ resp.op = "get_movie"
    /\ resp.status = 404
    /\ resp.id \in ever_ids
    /\ movies # {}

\* C6: create_movie with the director_id of an existing director adds exactly
\* one movie, under an id no movie ever had, with the payload's fields, and
\* returns it; and no request changes the id of a persisted movie: an update
\* keeps the ids, a delete only removes a row, a create only adds one.
C6_FreshIdOnCreate ==
    [][/\ (resp'.op = "create_movie" /\ resp'.args.director_id \in directors) =>
              \E new \in movies' :
                  /\ resp'.status = 200
                  /\ new \notin movies
                  /\ movies' = movies \cup {new}
                  /\ new.id \notin ever_ids
                  /\ \A f \in Fields : new[f] = resp'.args[f]
                  /\ resp'.body = {new}
       /\ resp'.op = "update_movie" =>
              Ids(movies') = Ids(movies) /\ Cardinality(movies') = Cardinality(movies)
       /\ resp'.op = "delete_movie" => movies' \subseteq movies
       /\ resp'.op = "create_movie" => movies \subseteq movies'
       /\ resp'.op \notin {"create_movie", "update_movie", "delete_movie"} =>
              movies' = movies]_vars

\* a create that succeeded after an earlier movie was deleted
C6_Witness ==
    /\ resp.op = "create_movie"
    /\ resp.status = 200
    /\ resp.body \subseteq movies
    /\ \E id \in ever_ids : id \notin Ids(movies)

\* C7: every persisted movie has a director_id that was a director's when the
\* movie was created.
C7_DirectorExistedAtCreation ==
    \A m \in movies : m.director_id \in at_creation[m.id]

====
